---- MODULE Spec2Model ----
(***************************************************************************)
(* Model of the session-scoped RAG engine of ai_app/rag_utils.py: the      *)
(* three module-level maps session_documents / session_embeddings /        *)
(* session_metadata, the ingestion pipeline, the chunker, the retriever,   *)
(* the clear and stats operations and the rehydration from the database.   *)
(*                                                                         *)
(* A Python str that is split or cleaned is a sequence of characters (each *)
(* a one-character TLA+ string; the two characters that have no TLA+       *)
(* spelling are the named tokens NUL and LIG_FI).  A word, a chunk text    *)
(* and a query are TLA+ strings.                                           *)
(***************************************************************************)
EXTENDS Integers, Sequences, FiniteSets, TLC

VARIABLES
    session_documents,   \* rag_utils.session_documents  {session_id: [chunk text]}
    session_embeddings,  \* rag_utils.session_embeddings {session_id: [vector]}
    session_metadata,    \* rag_utils.session_metadata   {session_id: [metadata]}
    ret,                 \* the last completed call: its arguments and its outcome
    ncalls,              \* number of store-mutating calls made so far
    all_ok,              \* history: no call has raised so far
    cleared,             \* history: the sessions cleared by clear_session_documents and
                         \* not named by an ingest or rehydrate call since, each with
                         \* the number of chunk texts it held when it was cleared
    populated,           \* history: the sessions that had a chunk ingested, or were
                         \* rehydrated, since they were last cleared
    threads,             \* concurrent calls: every thread's position and locals
    c_text,              \* chunker run: the text given to split_text_intelligent
    c_chunk_size,        \* chunker run: chunk_size
    c_overlap,           \* chunker run: overlap
    c_result,            \* chunker run: the outcome, or NotRun
    db                   \* the database of the views: the ChatSession rows and the
                         \* number of UploadedDocument rows created so far

storeVars == <<session_documents, session_embeddings, session_metadata>>
chunkVars == <<c_text, c_chunk_size, c_overlap, c_result>>
histVars == <<all_ok, cleared, populated>>
vars == <<session_documents, session_embeddings, session_metadata, ret, ncalls,
          all_ok, cleared, populated, threads, c_text, c_chunk_size, c_overlap, c_result,
          db>>

-----------------------------------------------------------------------------
(* Characters and strings *)

NUL == "<NUL>"       \* the control character \x00
LIG_FI == "<fi>"     \* the ligature U+FB01
LIG_FL == "<fl>"     \* the ligature U+FB02

\* the characters matched by \s (those the model's texts use)
SpaceChars == {" ", "\t", "\n"}
\* the characters matched by [\x00-\x08\x0b-\x0c\x0e-\x1f\x7f-\x9f] that are not \s
CtrlChars == {NUL}
\* the characters matched by [.!?]
TermChars == {".", "!", "?"}

IsSpace(c) == c \in SpaceChars

Idx(s) == [i \in 1..Len(s) |-> i]

\* the Python str made of the characters s[lo..hi], as a TLA+ string
RECURSIVE StrOf(_, _, _)
StrOf(s, lo, hi) ==
    IF lo > hi THEN ""
    ELSE IF lo = hi THEN s[lo]
    ELSE LET mid == (lo + hi) \div 2
         IN  StrOf(s, lo, mid) \o StrOf(s, mid + 1, hi)

\* sep.join(words) for a list of strings
RECURSIVE JoinRange(_, _, _, _)
JoinRange(words, sep, lo, hi) ==
    IF lo > hi THEN ""
    ELSE IF lo = hi THEN words[lo]
    ELSE LET mid == (lo + hi) \div 2
         IN  JoinRange(words, sep, lo, mid) \o sep \o JoinRange(words, sep, mid + 1, hi)

str_join(sep, words) == JoinRange(words, sep, 1, Len(words))

\* str.split(): the maximal runs of non-whitespace characters, in order
str_split(s) ==
    LET starts == SelectSeq(Idx(s), LAMBDA i : ~IsSpace(s[i]) /\ (i = 1 \/ IsSpace(s[i - 1])))
        ends == SelectSeq(Idx(s), LAMBDA i : ~IsSpace(s[i]) /\ (i = Len(s) \/ IsSpace(s[i + 1])))
    IN  [k \in 1..Len(starts) |-> StrOf(s, starts[k], ends[k])]

\* str.strip(): without its leading and trailing whitespace
str_strip(s) ==
    LET keep == SelectSeq(Idx(s), LAMBDA i : ~IsSpace(s[i]))
    IN  IF keep = <<>> THEN <<>> ELSE SubSeq(s, Head(keep), keep[Len(keep)])

\* re.sub(r'\s+', ' ', text): every maximal whitespace run becomes one space
re_sub_spaces(s) ==
    LET keep == SelectSeq(Idx(s), LAMBDA i : ~(IsSpace(s[i]) /\ i > 1 /\ IsSpace(s[i - 1])))
    IN  [k \in 1..Len(keep) |-> IF IsSpace(s[keep[k]]) THEN " " ELSE s[keep[k]]]

\* re.sub(r'[\x00-\x08\x0b-\x0c\x0e-\x1f\x7f-\x9f]', '', text)
re_sub_control(s) == SelectSeq(s, LAMBDA c : c \notin CtrlChars)

\* text.replace(U+FB01, 'fi').replace(U+FB02, 'fl')
RECURSIVE replace_ligatures(_, _, _)
replace_ligatures(s, lo, hi) ==
    IF lo > hi THEN <<>>
    ELSE IF lo = hi
         THEN IF s[lo] = LIG_FI THEN <<"f", "i">>
              ELSE IF s[lo] = LIG_FL THEN <<"f", "l">>
              ELSE <<s[lo]>>
    ELSE LET mid == (lo + hi) \div 2
         IN  replace_ligatures(s, lo, mid) \o replace_ligatures(s, mid + 1, hi)

clean_text(text) ==
    LET t1 == re_sub_spaces(text)
        t2 == re_sub_control(t1)
        t3 == replace_ligatures(t2, 1, Len(t2))
    IN  str_strip(t3)

\* re.split(r'(?<=[.!?])\s+', text): the pieces between the whitespace runs
\* that directly follow a terminator
re_split_sentences(s) ==
    LET n == Len(s)
        runStarts == SelectSeq(Idx(s), LAMBDA i : IsSpace(s[i]) /\ (i = 1 \/ ~IsSpace(s[i - 1])))
        runEnds == SelectSeq(Idx(s), LAMBDA i : IsSpace(s[i]) /\ (i = n \/ ~IsSpace(s[i + 1])))
        matches == SelectSeq(Idx(runStarts),
                             LAMBDA k : runStarts[k] > 1 /\ s[runStarts[k] - 1] \in TermChars)
        m == Len(matches)
    IN  [p \in 1..(m + 1) |->
            SubSeq(s,
                   IF p = 1 THEN 1 ELSE runEnds[matches[p - 1]] + 1,
                   IF p = m + 1 THEN n ELSE runStarts[matches[p]] - 1)]

-----------------------------------------------------------------------------
(* The chunker *)

\* lst[start:] with Python's slice rules (a negative start counts from the end)
PySliceFrom(lst, start) ==
    LET n == Len(lst)
        from == IF start < 0
                THEN (IF n + start < 0 THEN 0 ELSE n + start)
                ELSE (IF start > n THEN n ELSE start)
    IN  SubSeq(lst, from + 1, n)

\* a variant that closes the chunk only once it is over the budget
split_step_closes_late(st, sentences, i, chunk_size, overlap) ==
    LET sentence_words == str_split(sentences[i])
        sentence_size == Len(sentence_words)
    IN  IF st.current_size > chunk_size /\ st.current_chunk # <<>>
        THEN LET overlap_words == IF Len(st.current_chunk) > overlap
                                  THEN PySliceFrom(st.current_chunk, -overlap)
                                  ELSE st.current_chunk
                 new_chunk == overlap_words \o sentence_words
             IN  [chunks |-> Append(st.chunks, str_join(" ", st.current_chunk)),
                  current_chunk |-> new_chunk,
                  current_size |-> Len(new_chunk),
                  closed |-> Append(st.closed, st.current_chunk),
                  seeded |-> Append(st.seeded, [sentence |-> i, words |-> new_chunk]),
                  current_sentences |-> <<i>>,
                  closed_sentences |-> Append(st.closed_sentences, st.current_sentences)]
        ELSE [st EXCEPT !.current_chunk = st.current_chunk \o sentence_words,
                        !.current_size = st.current_size + sentence_size,
                        !.current_sentences = Append(st.current_sentences, i)]

\* one iteration of the for loop of split_text_intelligent on sentence number i.
\* st.chunks, st.current_chunk and st.current_size are the code's locals;
\* st.closed (the word list of every closed chunk), st.seeded (for every
\* chunk opened by a split, the number of the sentence that triggered it and
\* the words the chunk was opened with), st.current_sentences (the numbers of
\* the sentences added whole to the current chunk) and st.closed_sentences
\* (the same for every closed chunk) record the run.
split_step(st, sentences, i, chunk_size, overlap) ==
    LET sentence_words == str_split(sentences[i])
        sentence_size == Len(sentence_words)
    IN  IF st.current_size + sentence_size > chunk_size /\ st.current_chunk # <<>>
        THEN LET chunk_text == str_join(" ", st.current_chunk)
                 overlap_words == IF Len(st.current_chunk) > overlap
                                  THEN PySliceFrom(st.current_chunk, -overlap)
                                  ELSE st.current_chunk
                 new_chunk == overlap_words \o sentence_words
             IN  [chunks |-> Append(st.chunks, chunk_text),
                  current_chunk |-> new_chunk,
                  current_size |-> Len(new_chunk),
                  closed |-> Append(st.closed, st.current_chunk),
                  seeded |-> Append(st.seeded, [sentence |-> i, words |-> new_chunk]),
                  current_sentences |-> <<i>>,
                  closed_sentences |-> Append(st.closed_sentences, st.current_sentences)]
        ELSE [st EXCEPT !.current_chunk = st.current_chunk \o sentence_words,
                        !.current_size = st.current_size + sentence_size,
                        !.current_sentences = Append(st.current_sentences, i)]

RECURSIVE split_loop(_, _, _, _, _)
split_loop(st, sentences, i, chunk_size, overlap) ==
    IF i > Len(sentences) THEN st
    ELSE split_loop(split_step(st, sentences, i, chunk_size, overlap),
                    sentences, i + 1, chunk_size, overlap)

\* the run of split_text_intelligent: its locals when the function returns
split_run(text, chunk_size, overlap) ==
    LET sentences == re_split_sentences(text)
        st0 == [chunks |-> <<>>, current_chunk |-> <<>>, current_size |-> 0,
                closed |-> <<>>, seeded |-> <<>>,
                current_sentences |-> <<>>, closed_sentences |-> <<>>]
        st == split_loop(st0, sentences, 1, chunk_size, overlap)
    IN  IF st.current_chunk # <<>>
        THEN [st EXCEPT !.chunks = Append(st.chunks, str_join(" ", st.current_chunk)),
                        !.closed = Append(st.closed, st.current_chunk),
                        !.closed_sentences = Append(st.closed_sentences, st.current_sentences)]
        ELSE st

split_text_intelligent(text, chunk_size, overlap) == split_run(text, chunk_size, overlap).chunks

DefaultChunkSize == 500
DefaultOverlap == 100

-----------------------------------------------------------------------------
(* Chunker runs: split_text_intelligent applied to bounded inputs *)

MaxTextLen == 7
ChunkAlphabet == {"a", ".", " "}
MaxChunkSize == 3

RECURSIVE TextsOfLen(_)
TextsOfLen(n) ==
    IF n = 0 THEN {<<>>}
    ELSE {Append(t, c) : t \in TextsOfLen(n - 1), c \in ChunkAlphabet}

ChunkTexts == UNION {TextsOfLen(n) : n \in 0..MaxTextLen}

NotRun == [state |-> "not run"]

ChunkInit ==
    /\ c_text \in ChunkTexts
    /\ c_chunk_size \in 1..MaxChunkSize
    /\ c_overlap \in 0..MaxChunkSize
    /\ c_result = NotRun

-----------------------------------------------------------------------------
(* Python dict operations on the three session maps *)

DictSet(d, k, v) == [x \in (DOMAIN d) \cup {k} |-> IF x = k THEN v ELSE d[x]]
DictDel(d, k) == [x \in (DOMAIN d) \ {k} |-> d[x]]
EmptyDict == [x \in {} |-> <<>>]

\* the three maps as one value, with the exception (if any) that ended the call
Store == [documents |-> session_documents,
          embeddings |-> session_embeddings,
          metadata |-> session_metadata,
          raised |-> "none"]

\* lines 21-24 and 245-248: the lazy creation of a session's three lists
init_session(st, session_id) ==
    IF session_id \notin DOMAIN st.documents
    THEN [st EXCEPT !.documents = DictSet(st.documents, session_id, <<>>),
                    !.embeddings = DictSet(st.embeddings, session_id, <<>>),
                    !.metadata = DictSet(st.metadata, session_id, <<>>)]
    ELSE st

\* d[k].append(v); KeyError when k is not a key of d
CanAppend(d, k) == k \in DOMAIN d
DictAppend(d, k, v) == [d EXCEPT ![k] = Append(d[k], v)]

-----------------------------------------------------------------------------
(* The embedder: SentenceTransformer.encode with normalize_embeddings=True.  *)
(* A vector <<x, y>> stands for (x/5, y/5): every vector below has norm 1.   *)

Vectors == << <<5, 0>>, <<4, 3>>, <<3, 4>>, <<0, 5>>, <<-3, 4>>, <<-4, 3>>, <<-5, 0>> >>

\* deterministic in the text
model_encode(text) == Vectors[(Len(text) % Len(Vectors)) + 1]

RECURSIVE SumTo(_, _)
SumTo(f, n) == IF n = 0 THEN 0 ELSE f[n] + SumTo(f, n - 1)

\* np.dot of two vectors of the same shape (scaled by 25)
np_dot(a, b) == SumTo([i \in 1..Len(a) |-> a[i] * b[i]], Len(a))

-----------------------------------------------------------------------------
(* Ingestion *)

\* a variant that numbers the chunks of a document from 1
chunk_metadata_one_based(doc_id, doc_name, idx, chunk) ==
    [doc_id |-> doc_id, doc_name |-> doc_name, chunk_id |-> idx + 1, char_count |-> Len(chunk)]

chunk_metadata(doc_id, doc_name, idx, chunk) ==
    [doc_id |-> doc_id, doc_name |-> doc_name, chunk_id |-> idx, char_count |-> Len(chunk)]

\* the body of the for loop, lines 32-44, from chunk number idx (0-based) on;
\* the embedder raises on chunk number fail_at (never, when fail_at is no index)
RECURSIVE ingest_loop(_, _, _, _, _, _, _)
ingest_loop(st, chunks, idx, doc_id, session_id, doc_name, fail_at) ==
    IF idx >= Len(chunks) THEN st
    ELSE IF idx = fail_at THEN [st EXCEPT !.raised = "EmbeddingError"]
    ELSE LET chunk == chunks[idx + 1]
             emb == model_encode(chunk)
         IN  IF ~CanAppend(st.documents, session_id)
                \/ ~CanAppend(st.embeddings, session_id)
                \/ ~CanAppend(st.metadata, session_id)
             THEN [st EXCEPT !.raised = "KeyError"]
             ELSE ingest_loop(
                    [st EXCEPT !.documents = DictAppend(st.documents, session_id, chunk),
                               !.embeddings = DictAppend(st.embeddings, session_id, emb),
                               !.metadata = DictAppend(st.metadata, session_id,
                                               chunk_metadata(doc_id, doc_name, idx, chunk))],
                    chunks, idx + 1, doc_id, session_id, doc_name, fail_at)

\* n words w separated by single spaces, the last one ending the sentence
Sentence(w, n) == [i \in 1..(2 * n) |-> IF i = 2 * n THEN "." ELSE IF i % 2 = 1 THEN w ELSE " "]

LongSentenceWords == 250

\* the texts handed to the ingestion: one that cleans to nothing, one of a
\* single chunk, one of three chunks under the default chunk size and overlap,
\* another of a single chunk, and one whose single chunk reads as the answer
\* retrieve_chunks gives for a session without documents
Texts ==
    [blank |-> <<" ", NUL, "\n", "\t">>,
     short |-> <<" ", "o", "k", NUL, ".", "\t", " ", LIG_FI, "x", "!", " ">>,
     long  |-> Sentence("a", LongSentenceWords + 1) \o <<" ">>
               \o Sentence("b", LongSentenceWords) \o <<"\n", " ">>
               \o Sentence("c", LongSentenceWords),
     note |-> <<"a", "l", "p", "h", "a", " ", "b", "e", "t", "a", " ",
                "g", "a", "m", "m", "a", ".">>,
     sentinel |-> <<"N", "o", " ", "d", "o", "c", "u", "m", "e", "n", "t", " ",
                    "u", "p", "l", "o", "a", "d", "e", "d", " ", "y", "e", "t", ".", "\n">>]

\* lines 27 and 30 on each of the texts: clean_text, then split_text_intelligent
\* with its default chunk_size and overlap
TextChunks ==
    [t \in DOMAIN Texts |->
        split_text_intelligent(clean_text(Texts[t]), DefaultChunkSize, DefaultOverlap)]

\* text is the name of one of Texts
process_document_text_with_storage(st, text, doc_id, session_id, doc_name, fail_at) ==
    LET st1 == init_session(st, session_id)
        chunks == TextChunks[text]
    IN  ingest_loop(st1, chunks, 0, doc_id, session_id, doc_name, fail_at)

-----------------------------------------------------------------------------
(* Persistence: pickled vectors and rehydration *)

\* pickle.dumps(embedding): the bytes hold the object
serialize_embedding(embedding) == [pickle |-> embedding]
\* bytes that are no pickle: pickle.loads raises on them
CorruptBytes == [garbage |-> "not a pickle"]
CanUnpickle(embedding_bytes) == "pickle" \in DOMAIN embedding_bytes
\* pickle.loads(embedding_bytes), for bytes it can load
deserialize_embedding(embedding_bytes) == embedding_bytes.pickle

\* a UUID primary key, and str() of it
UUID(n) == [uuid |-> n]
UuidText == <<"d1", "d2", "d3", "d4", "d5", "d6", "u1", "u2">>
py_str_uuid(u) == UuidText[u.uuid]

\* the body of the for loop of load_session_from_database, lines 250-264,
\* from record number i (1-based) on
RECURSIVE load_loop(_, _, _, _)
load_loop(st, session_id, document_embeddings, i) ==
    IF i > Len(document_embeddings) THEN st
    ELSE LET emb_obj == document_embeddings[i]
         IN  IF ~CanAppend(st.documents, session_id) THEN [st EXCEPT !.raised = "KeyError"]
             ELSE LET st1 == [st EXCEPT !.documents =
                                 DictAppend(st.documents, session_id, emb_obj.chunk_text)]
                  IN  IF ~CanUnpickle(emb_obj.embedding_vector)
                      THEN [st1 EXCEPT !.raised = "UnpicklingError"]
                      ELSE IF ~CanAppend(st1.embeddings, session_id)
                              \/ ~CanAppend(st1.metadata, session_id)
                      THEN [st1 EXCEPT !.raised = "KeyError"]
                      ELSE load_loop(
                             [st1 EXCEPT
                                !.embeddings = DictAppend(st1.embeddings, session_id,
                                    deserialize_embedding(emb_obj.embedding_vector)),
                                !.metadata = DictAppend(st1.metadata, session_id,
                                    [doc_id |-> py_str_uuid(emb_obj.document.id),
                                     doc_name |-> emb_obj.document.original_filename,
                                     chunk_id |-> emb_obj.chunk_index,
                                     char_count |-> Len(emb_obj.chunk_text)])],
                             session_id, document_embeddings, i + 1)

load_session_from_database(st, session_id, document_embeddings) ==
    load_loop(init_session(st, session_id), session_id, document_embeddings, 1)

-----------------------------------------------------------------------------
(* Clearing *)

\* a variant that leaves the session's metadata list behind
clear_session_documents_keeps_metadata(st, session_id) ==
    LET st1 == IF session_id \in DOMAIN st.documents
               THEN [st EXCEPT !.documents = DictDel(st.documents, session_id)] ELSE st
    IN  IF session_id \in DOMAIN st1.embeddings
        THEN [st1 EXCEPT !.embeddings = DictDel(st1.embeddings, session_id)] ELSE st1

\* a variant that leaves the session's texts behind
clear_session_documents_keeps_documents(st, session_id) ==
    LET st1 == IF session_id \in DOMAIN st.embeddings
               THEN [st EXCEPT !.embeddings = DictDel(st.embeddings, session_id)] ELSE st
    IN  IF session_id \in DOMAIN st1.metadata
        THEN [st1 EXCEPT !.metadata = DictDel(st1.metadata, session_id)] ELSE st1

\* a variant that empties the three maps whatever the session
clear_session_documents_clears_all(st, session_id) ==
    [st EXCEPT !.documents = EmptyDict, !.embeddings = EmptyDict, !.metadata = EmptyDict]

clear_session_documents(st, session_id) ==
    LET st1 == IF session_id \in DOMAIN st.documents
               THEN [st EXCEPT !.documents = DictDel(st.documents, session_id)] ELSE st
        st2 == IF session_id \in DOMAIN st1.embeddings
               THEN [st1 EXCEPT !.embeddings = DictDel(st1.embeddings, session_id)] ELSE st1
    IN  IF session_id \in DOMAIN st2.metadata
        THEN [st2 EXCEPT !.metadata = DictDel(st2.metadata, session_id)] ELSE st2

clear_document_store(st) ==
    [st EXCEPT !.documents = EmptyDict, !.embeddings = EmptyDict, !.metadata = EmptyDict]

-----------------------------------------------------------------------------
(* Stats *)

\* the Python value None (a token no session id is spelled as)
None == "<None>"

\* bool(session_id): None and the empty string are falsy
Truthy(session_id) == session_id # None /\ session_id # ""

RECURSIVE SumLens(_, _)
SumLens(d, keys) ==
    IF keys = {} THEN 0
    ELSE LET k == CHOOSE x \in keys : TRUE
         IN  Len(d[k]) + SumLens(d, keys \ {k})

\* get_session_stats(session_id).  The 'sessions' list is given as the set of
\* its elements.
get_session_stats(st, session_id) ==
    IF Truthy(session_id)
    THEN IF session_id \notin DOMAIN st.documents
         THEN [raised |-> "none",
               value |-> [session_id |-> session_id, total_chunks |-> 0, unique_documents |-> 0]]
         ELSE IF session_id \notin DOMAIN st.metadata
         THEN [raised |-> "KeyError", value |-> None]
         ELSE [raised |-> "none",
               value |-> [session_id |-> session_id,
                          total_chunks |-> Len(st.documents[session_id]),
                          unique_documents |->
                              Cardinality({st.metadata[session_id][i].doc_id :
                                              i \in 1..Len(st.metadata[session_id])})]]
    ELSE [raised |-> "none",
          value |-> [total_sessions |-> Cardinality(DOMAIN st.documents),
                     total_chunks |-> SumLens(st.documents, DOMAIN st.documents),
                     sessions |-> DOMAIN st.documents]]

-----------------------------------------------------------------------------
(* Retrieval.  Chunk positions are 0-based, as in the code; similarities are *)
(* exact (scaled by 25), combined scores are exact (scaled by 250).          *)

Sentinel == "No document uploaded yet."

Reverse(s) == [i \in 1..Len(s) |-> s[Len(s) + 1 - i]]

MinOf(S) == CHOOSE x \in S : \A y \in S : x <= y

\* np.argsort(similarities): the positions in ascending order of similarity,
\* equal similarities in ascending position (the sort numpy uses on short
\* arrays is stable)
np_argsort(similarities) ==
    LET n == Len(similarities)
        rank(i) == Cardinality({j \in 1..n : \/ similarities[j] < similarities[i]
                                             \/ /\ similarities[j] = similarities[i]
                                                /\ j < i}) + 1
    IN  [p \in 1..n |-> (CHOOSE i \in 1..n : rank(i) = p) - 1]

\* diversity_weight = 0.3, in tenths
DiversityWeight == 3

combined_score(idx, selected, similarities, embeddings) ==
    LET relevance == similarities[idx + 1]
        diversity == MinOf({25 - np_dot(embeddings[idx + 1], embeddings[sel_idx + 1]) :
                              sel_idx \in {selected[k] : k \in 1..Len(selected)}})
    IN  (10 - DiversityWeight) * relevance + DiversityWeight * diversity

\* a variant that keeps the last of the candidates with the highest score
best_of_last_tie(remaining, selected, similarities, embeddings) ==
    LET score(k) == combined_score(remaining[k], selected, similarities, embeddings)
        best == CHOOSE k \in 1..Len(remaining) :
                    /\ \A j \in 1..Len(remaining) : score(j) <= score(k)
                    /\ \A j \in (k + 1)..Len(remaining) : score(j) < score(k)
    IN  remaining[best]

\* the for loop of lines 153-163: the first candidate of 'remaining' whose
\* combined score no other candidate exceeds and no earlier one equals
best_of(remaining, selected, similarities, embeddings) ==
    LET score(k) == combined_score(remaining[k], selected, similarities, embeddings)
        best == CHOOSE k \in 1..Len(remaining) :
                    /\ \A j \in 1..Len(remaining) : score(j) <= score(k)
                    /\ \A j \in 1..(k - 1) : score(j) < score(k)
    IN  remaining[best]

\* list.remove(x): without the first occurrence of x
ListRemove(lst, x) ==
    LET at == MinOf({k \in 1..Len(lst) : lst[k] = x})
    IN  SubSeq(lst, 1, at - 1) \o SubSeq(lst, at + 1, Len(lst))

\* the while loop of lines 149-166
RECURSIVE rerank_loop(_, _, _, _, _)
rerank_loop(selected, remaining, similarities, embeddings, top_k) ==
    IF Len(selected) < top_k /\ remaining # <<>>
    THEN LET best_idx == best_of(remaining, selected, similarities, embeddings)
         IN  rerank_loop(Append(selected, best_idx), ListRemove(remaining, best_idx),
                         similarities, embeddings, top_k)
    ELSE selected

rerank_with_diversity(candidate_indices, similarities, embeddings, top_k) ==
    IF Len(candidate_indices) <= top_k
    THEN [raised |-> "none", value |-> candidate_indices]
    ELSE IF candidate_indices = <<>>
    THEN [raised |-> "IndexError", value |-> <<>>]
    ELSE [raised |-> "none",
          value |-> rerank_loop(<<candidate_indices[1]>>, Tail(candidate_indices),
                                similarities, embeddings, top_k)]

PyMin(a, b) == IF a <= b THEN a ELSE b

\* a variant that tests only whether the session is a key
no_documents_absent_only(st, sid) == sid \notin DOMAIN st.embeddings

\* lines 102-103: the session a retrieve_chunks call reads
EffectiveSession(session_id) == IF session_id = None THEN "default" ELSE session_id

\* line 106: the session has no documents
no_documents(st, sid) == sid \notin DOMAIN st.embeddings \/ st.embeddings[sid] = <<>>

\* retrieve_chunks(query, session_id, top_k); embedder_ok tells whether the
\* embedder answers or raises.  embed_calls counts the calls of the embedder;
\* shortlist records top_indices (line 118) and selected records
\* selected_indices (line 121) when the call got that far.
retrieve_chunks(st, query, session_id, top_k, embedder_ok) ==
    LET sid == EffectiveSession(session_id)
    IN  IF no_documents(st, sid)
        THEN [raised |-> "none", value |-> <<Sentinel>>, embed_calls |-> 0,
              shortlist |-> <<>>, selected |-> <<>>]
        ELSE IF ~embedder_ok
        THEN [raised |-> "EmbeddingError", value |-> <<>>, embed_calls |-> 1,
              shortlist |-> <<>>, selected |-> <<>>]
        ELSE
        LET query_emb == model_encode(query)
            embeddings == st.embeddings[sid]
        IN  IF \E i \in 1..Len(embeddings) : Len(embeddings[i]) # Len(query_emb)
            THEN [raised |-> "ValueError", value |-> <<>>, embed_calls |-> 1,
                  shortlist |-> <<>>, selected |-> <<>>]
            ELSE
            LET similarities == [i \in 1..Len(embeddings) |-> np_dot(query_emb, embeddings[i])]
                num_candidates == PyMin(top_k * 2, Len(similarities))
                top_indices == Reverse(PySliceFrom(np_argsort(similarities), -num_candidates))
                reranked == rerank_with_diversity(top_indices, similarities, embeddings, top_k)
                selected_indices == reranked.value
            IN  IF reranked.raised # "none"
                THEN [raised |-> reranked.raised, value |-> <<>>, embed_calls |-> 1,
                      shortlist |-> top_indices, selected |-> <<>>]
                ELSE IF sid \notin DOMAIN st.documents
                THEN [raised |-> "KeyError", value |-> <<>>, embed_calls |-> 1,
                      shortlist |-> top_indices, selected |-> <<>>]
                ELSE LET documents == st.documents[sid]
                     IN  IF \E k \in 1..Len(selected_indices) :
                                selected_indices[k] >= Len(documents)
                         THEN [raised |-> "IndexError", value |-> <<>>, embed_calls |-> 1,
                               shortlist |-> top_indices, selected |-> <<>>]
                         ELSE [raised |-> "none",
                               value |-> [k \in 1..Len(selected_indices) |->
                                             documents[selected_indices[k] + 1]],
                               embed_calls |-> 1,
                               shortlist |-> top_indices, selected |-> selected_indices]

-----------------------------------------------------------------------------
(* The inputs of the calls *)

SessionIds == {"s1", "default"}

Uploads ==
    {[text |-> "blank", doc_id |-> "d1", doc_name |-> "blank.txt"],
     [text |-> "short", doc_id |-> "d1", doc_name |-> "notes.txt"],
     [text |-> "long", doc_id |-> "d2", doc_name |-> ""]}

\* the chunk number on which the embedder raises; NoFailure when it never does
NoFailure == -1
FailPoints == {NoFailure, 0, 1, 2}

GoodRecord1 ==
    [chunk_text |-> "alpha beta.", embedding_vector |-> serialize_embedding(<<3, 4>>),
     document |-> [id |-> UUID(1), original_filename |-> "notes.txt"], chunk_index |-> 0]
GoodRecord2 ==
    [chunk_text |-> "gamma", embedding_vector |-> serialize_embedding(<<0, 5>>),
     document |-> [id |-> UUID(3), original_filename |-> "old.docx"], chunk_index |-> 1]
CorruptRecord ==
    [chunk_text |-> "delta.", embedding_vector |-> CorruptBytes,
     document |-> [id |-> UUID(3), original_filename |-> "old.docx"], chunk_index |-> 0]

RecordLists == {<<>>, <<GoodRecord1, GoodRecord2>>, <<GoodRecord1, CorruptRecord, GoodRecord2>>}

Queries == {"what is a?"}
TopKs == {-1, 0, 1, 2}

MaxCalls == 2

-----------------------------------------------------------------------------
(* Calls made one at a time: every action is one whole call *)

NoCall == [op |-> "none"]
NoThreads == <<>>

\* no ChatSession row (chat_sessions maps the id of every row ever created to
\* whether the row still exists) and no UploadedDocument row
EmptyDb == [chat_sessions |-> [x \in {} |-> TRUE], documents |-> 0]

StoreInit ==
    /\ session_documents = EmptyDict
    /\ session_embeddings = EmptyDict
    /\ session_metadata = EmptyDict
    /\ ret = NoCall
    /\ ncalls = 0
    /\ all_ok = TRUE
    /\ cleared = EmptyDict
    /\ populated = {}
    /\ db = EmptyDb

ChunkIdle ==
    /\ c_text = <<>>
    /\ c_chunk_size = DefaultChunkSize
    /\ c_overlap = DefaultOverlap
    /\ c_result = NotRun

Init == StoreInit /\ threads = NoThreads /\ ChunkIdle

SetStore(st) ==
    /\ session_documents' = st.documents
    /\ session_embeddings' = st.embeddings
    /\ session_metadata' = st.metadata

ChunksIn(st, session_id) ==
    IF session_id \in DOMAIN st.documents THEN Len(st.documents[session_id]) ELSE 0

Ingest(u, session_id, fail_at) ==
    /\ ncalls < MaxCalls
    /\ LET st == process_document_text_with_storage(
                     Store, u.text, u.doc_id, session_id, u.doc_name, fail_at)
       IN  /\ SetStore(st)
           /\ ret' = [op |-> "process_document_text_with_storage", text |-> u.text,
                      doc_id |-> u.doc_id, session_id |-> session_id,
                      doc_name |-> u.doc_name, raised |-> st.raised,
                      failed_chunk |-> IF st.raised = "EmbeddingError" THEN fail_at
                                       ELSE NoFailure]
           /\ all_ok' = (all_ok /\ st.raised = "none")
           /\ cleared' = DictDel(cleared, session_id)
           /\ populated' = IF ChunksIn(st, session_id) > ChunksIn(Store, session_id)
                           THEN populated \cup {session_id} ELSE populated
    /\ ncalls' = ncalls + 1
    /\ UNCHANGED <<threads, chunkVars, db>>

Rehydrate(session_id, document_embeddings) ==
    /\ ncalls < MaxCalls
    /\ LET st == load_session_from_database(Store, session_id, document_embeddings)
       IN  /\ SetStore(st)
           /\ ret' = [op |-> "load_session_from_database", session_id |-> session_id,
                      document_embeddings |-> document_embeddings, raised |-> st.raised]
           /\ all_ok' = (all_ok /\ st.raised = "none")
    /\ cleared' = DictDel(cleared, session_id)
    /\ populated' = populated \cup {session_id}
    /\ ncalls' = ncalls + 1
    /\ UNCHANGED <<threads, chunkVars, db>>

ClearSession(session_id) ==
    /\ ncalls < MaxCalls
    /\ SetStore(clear_session_documents(Store, session_id))
    /\ ret' = [op |-> "clear_session_documents", session_id |-> session_id, raised |-> "none"]
    /\ cleared' = DictSet(cleared, session_id, ChunksIn(Store, session_id))
    /\ populated' = populated \ {session_id}
    /\ ncalls' = ncalls + 1
    /\ UNCHANGED <<all_ok, threads, chunkVars, db>>

ClearAll ==
    /\ ncalls < MaxCalls
    /\ SetStore(clear_document_store(Store))
    /\ ret' = [op |-> "clear_document_store", raised |-> "none"]
    /\ populated' = {}
    /\ ncalls' = ncalls + 1
    /\ UNCHANGED <<all_ok, cleared, threads, chunkVars, db>>

Retrieve(query, session_id, top_k, embedder_ok) ==
    /\ LET r == retrieve_chunks(Store, query, session_id, top_k, embedder_ok)
       IN  ret' = [op |-> "retrieve_chunks", query |-> query, session_id |-> session_id,
                   top_k |-> top_k, raised |-> r.raised, value |-> r.value,
                   embed_calls |-> r.embed_calls, shortlist |-> r.shortlist,
                   selected |-> r.selected]
    /\ UNCHANGED <<storeVars, ncalls, histVars, threads, chunkVars, db>>

Stats(session_id) ==
    /\ LET r == get_session_stats(Store, session_id)
       IN  ret' = [op |-> "get_session_stats", session_id |-> session_id,
                   raised |-> r.raised, value |-> r.value]
    /\ UNCHANGED <<storeVars, ncalls, histVars, threads, chunkVars, db>>

Next ==
    \/ \E u \in Uploads, s \in SessionIds, f \in FailPoints : Ingest(u, s, f)
    \/ \E s \in SessionIds, recs \in RecordLists : Rehydrate(s, recs)
    \/ \E s \in SessionIds : ClearSession(s)
    \/ ClearAll
    \/ \E q \in Queries, s \in SessionIds \cup {None}, k \in TopKs, ok \in BOOLEAN :
          Retrieve(q, s, k, ok)
    \/ \E s \in SessionIds \cup {None} : Stats(s)

Spec == Init /\ [][Next]_vars

-----------------------------------------------------------------------------
(* Concurrent calls.  Every thread runs one call at a time; a step of a call *)
(* is one statement-level operation on one of the three maps (a membership   *)
(* test, a d[k] = [], a d[k].append(v), a read of d[k]), with the local      *)
(* computation that follows it.  The embedder answers every call.            *)

ThreadIds == {1, 2}
MaxConcCalls == 2
ConcTopKs == {1, 2}
ConcQueries == {"beta"}

Idle == [pc |-> "idle", op |-> "none"]

EmptyStore ==
    [documents |-> EmptyDict, embeddings |-> EmptyDict, metadata |-> EmptyDict, raised |-> "none"]

\* the store when the concurrent calls begin: empty, or holding one session
\* with one ingested document
ConcStores ==
    {EmptyStore,
     process_document_text_with_storage(EmptyStore, "short", "d1", "s1", "notes.txt", NoFailure)}

ConcInit ==
    /\ \E st \in ConcStores :
          /\ session_documents = st.documents
          /\ session_embeddings = st.embeddings
          /\ session_metadata = st.metadata
    /\ ret = NoCall
    /\ ncalls = 0
    /\ all_ok = TRUE
    /\ cleared = EmptyDict
    /\ populated = {}
    /\ db = EmptyDb
    /\ threads = [t \in ThreadIds |-> Idle]
    /\ ChunkIdle

CanStart(t) == threads[t].pc \in {"idle", "done"} /\ ncalls < MaxConcCalls

SetThread(t, th) == threads' = [threads EXCEPT ![t] = th]

Finish(th, raised, value) == [th EXCEPT !.pc = "done", !.raised = raised, !.value = value]

ConcUnchanged == UNCHANGED <<ret, histVars, chunkVars, db>>

(* process_document_text_with_storage, statement by statement *)

StartIngest(t, u, session_id) ==
    /\ CanStart(t)
    /\ SetThread(t, [pc |-> "ing_check", op |-> "process_document_text_with_storage",
                     session_id |-> session_id, text |-> u.text, doc_id |-> u.doc_id,
                     doc_name |-> u.doc_name, chunks |-> <<>>, idx |-> 0,
                     raised |-> "none", value |-> None])
    /\ ncalls' = ncalls + 1
    /\ UNCHANGED storeVars /\ ConcUnchanged

\* lines 27-34: clean, split, and the loop header with the embedder's call for
\* chunk number th.idx; the call returns when no chunk is left
ToNextChunk(th, chunks, idx) ==
    IF idx < Len(chunks)
    THEN [th EXCEPT !.pc = "ing_append_doc", !.chunks = chunks, !.idx = idx]
    ELSE [th EXCEPT !.pc = "done", !.chunks = chunks, !.idx = idx]

\* line 21
IngCheck(t) ==
    LET th == threads[t]
    IN  /\ th.pc = "ing_check"
        /\ IF th.session_id \notin DOMAIN session_documents
           THEN SetThread(t, [th EXCEPT !.pc = "ing_init_docs"])
           ELSE SetThread(t, ToNextChunk(th, TextChunks[th.text], 0))
        /\ UNCHANGED <<storeVars, ncalls>> /\ ConcUnchanged

\* line 22
IngInitDocs(t) ==
    LET th == threads[t]
    IN  /\ th.pc = "ing_init_docs"
        /\ session_documents' = DictSet(session_documents, th.session_id, <<>>)
        /\ SetThread(t, [th EXCEPT !.pc = "ing_init_embs"])
        /\ UNCHANGED <<session_embeddings, session_metadata, ncalls>> /\ ConcUnchanged

\* line 23
IngInitEmbs(t) ==
    LET th == threads[t]
    IN  /\ th.pc = "ing_init_embs"
        /\ session_embeddings' = DictSet(session_embeddings, th.session_id, <<>>)
        /\ SetThread(t, [th EXCEPT !.pc = "ing_init_meta"])
        /\ UNCHANGED <<session_documents, session_metadata, ncalls>> /\ ConcUnchanged

\* line 24, then lines 27-34
IngInitMeta(t) ==
    LET th == threads[t]
    IN  /\ th.pc = "ing_init_meta"
        /\ session_metadata' = DictSet(session_metadata, th.session_id, <<>>)
        /\ SetThread(t, ToNextChunk(th, TextChunks[th.text], 0))
        /\ UNCHANGED <<session_documents, session_embeddings, ncalls>> /\ ConcUnchanged

\* line 37
IngAppendDoc(t) ==
    LET th == threads[t]
    IN  /\ th.pc = "ing_append_doc"
        /\ IF CanAppend(session_documents, th.session_id)
           THEN /\ session_documents' =
                      DictAppend(session_documents, th.session_id, th.chunks[th.idx + 1])
                /\ SetThread(t, [th EXCEPT !.pc = "ing_append_emb"])
           ELSE /\ SetThread(t, Finish(th, "KeyError", None))
                /\ UNCHANGED session_documents
        /\ UNCHANGED <<session_embeddings, session_metadata, ncalls>> /\ ConcUnchanged

\* line 38
IngAppendEmb(t) ==
    LET th == threads[t]
    IN  /\ th.pc = "ing_append_emb"
        /\ IF CanAppend(session_embeddings, th.session_id)
           THEN /\ session_embeddings' =
                      DictAppend(session_embeddings, th.session_id,
                                 model_encode(th.chunks[th.idx + 1]))
                /\ SetThread(t, [th EXCEPT !.pc = "ing_append_meta"])
           ELSE /\ SetThread(t, Finish(th, "KeyError", None))
                /\ UNCHANGED session_embeddings
        /\ UNCHANGED <<session_documents, session_metadata, ncalls>> /\ ConcUnchanged

\* lines 39-44, then the loop header and the embedder's call for the next chunk
IngAppendMeta(t) ==
    LET th == threads[t]
    IN  /\ th.pc = "ing_append_meta"
        /\ IF CanAppend(session_metadata, th.session_id)
           THEN /\ session_metadata' =
                      DictAppend(session_metadata, th.session_id,
                                 chunk_metadata(th.doc_id, th.doc_name, th.idx,
                                                th.chunks[th.idx + 1]))
                /\ SetThread(t, ToNextChunk(th, th.chunks, th.idx + 1))
           ELSE /\ SetThread(t, Finish(th, "KeyError", None))
                /\ UNCHANGED session_metadata
        /\ UNCHANGED <<session_documents, session_embeddings, ncalls>> /\ ConcUnchanged

(* get_session_stats(session_id) for a session id, statement by statement. *)
(* th.seen_len holds the length the call read of each list.                *)

StartStats(t, session_id) ==
    /\ CanStart(t)
    /\ Truthy(session_id)
    /\ SetThread(t, [pc |-> "st_check", op |-> "get_session_stats",
                     session_id |-> session_id, seen_len |-> EmptyDict,
                     raised |-> "none", value |-> None])
    /\ ncalls' = ncalls + 1
    /\ UNCHANGED storeVars /\ ConcUnchanged

\* line 198
StCheck(t) ==
    LET th == threads[t]
    IN  /\ th.pc = "st_check"
        /\ IF th.session_id \notin DOMAIN session_documents
           THEN SetThread(t, Finish(th, "none",
                    [session_id |-> th.session_id, total_chunks |-> 0, unique_documents |-> 0]))
           ELSE SetThread(t, [th EXCEPT !.pc = "st_len"])
        /\ UNCHANGED <<storeVars, ncalls>> /\ ConcUnchanged

\* line 207
StLen(t) ==
    LET th == threads[t]
    IN  /\ th.pc = "st_len"
        /\ IF th.session_id \notin DOMAIN session_documents
           THEN SetThread(t, Finish(th, "KeyError", None))
           ELSE SetThread(t, [th EXCEPT
                    !.pc = "st_meta",
                    !.seen_len = DictSet(th.seen_len, "session_documents",
                                         Len(session_documents[th.session_id]))])
        /\ UNCHANGED <<storeVars, ncalls>> /\ ConcUnchanged

\* line 208
StMeta(t) ==
    LET th == threads[t]
    IN  /\ th.pc = "st_meta"
        /\ IF th.session_id \notin DOMAIN session_metadata
           THEN SetThread(t, Finish(th, "KeyError", None))
           ELSE LET metadata == session_metadata[th.session_id]
                    seen == DictSet(th.seen_len, "session_metadata", Len(metadata))
                IN  SetThread(t, Finish([th EXCEPT !.seen_len = seen], "none",
                        [session_id |-> th.session_id,
                         total_chunks |-> seen["session_documents"],
                         unique_documents |->
                             Cardinality({metadata[i].doc_id : i \in 1..Len(metadata)})]))
        /\ UNCHANGED <<storeVars, ncalls>> /\ ConcUnchanged

(* retrieve_chunks, statement by statement *)

StartRetrieve(t, query, session_id, top_k) ==
    /\ CanStart(t)
    /\ SetThread(t, [pc |-> "rt_check_in", op |-> "retrieve_chunks", query |-> query,
                     session_id |-> EffectiveSession(session_id), top_k |-> top_k,
                     seen_len |-> EmptyDict, selected_indices |-> <<>>,
                     raised |-> "none", value |-> None])
    /\ ncalls' = ncalls + 1
    /\ UNCHANGED storeVars /\ ConcUnchanged

\* line 106, the membership test
RtCheckIn(t) ==
    LET th == threads[t]
    IN  /\ th.pc = "rt_check_in"
        /\ IF th.session_id \notin DOMAIN session_embeddings
           THEN SetThread(t, Finish(th, "none", <<Sentinel>>))
           ELSE SetThread(t, [th EXCEPT !.pc = "rt_check_empty"])
        /\ UNCHANGED <<storeVars, ncalls>> /\ ConcUnchanged

\* line 106, the emptiness test
RtCheckEmpty(t) ==
    LET th == threads[t]
    IN  /\ th.pc = "rt_check_empty"
        /\ IF th.session_id \notin DOMAIN session_embeddings
           THEN SetThread(t, Finish(th, "KeyError", None))
           ELSE IF session_embeddings[th.session_id] = <<>>
           THEN SetThread(t, Finish(th, "none", <<Sentinel>>))
           ELSE SetThread(t, [th EXCEPT !.pc = "rt_embeddings"])
        /\ UNCHANGED <<storeVars, ncalls>> /\ ConcUnchanged

\* lines 110-126: the vectors of the session are read, scored and re-ranked
RtEmbeddings(t) ==
    LET th == threads[t]
    IN  /\ th.pc = "rt_embeddings"
        /\ IF th.session_id \notin DOMAIN session_embeddings
           THEN SetThread(t, Finish(th, "KeyError", None))
           ELSE LET query_emb == model_encode(th.query)
                    embeddings == session_embeddings[th.session_id]
                    similarities ==
                        [i \in 1..Len(embeddings) |-> np_dot(query_emb, embeddings[i])]
                    num_candidates == PyMin(th.top_k * 2, Len(similarities))
                    top_indices ==
                        Reverse(PySliceFrom(np_argsort(similarities), -num_candidates))
                    reranked ==
                        rerank_with_diversity(top_indices, similarities, embeddings, th.top_k)
                    seen == DictSet(th.seen_len, "session_embeddings", Len(embeddings))
                IN  IF reranked.raised # "none"
                    THEN SetThread(t, Finish(th, reranked.raised, None))
                    ELSE SetThread(t, [th EXCEPT !.pc = "rt_documents", !.seen_len = seen,
                                                 !.selected_indices = reranked.value])
        /\ UNCHANGED <<storeVars, ncalls>> /\ ConcUnchanged

\* lines 129-130
RtDocuments(t) ==
    LET th == threads[t]
    IN  /\ th.pc = "rt_documents"
        /\ IF th.session_id \notin DOMAIN session_documents
           THEN SetThread(t, Finish(th, "KeyError", None))
           ELSE LET documents == session_documents[th.session_id]
                    seen == DictSet(th.seen_len, "session_documents", Len(documents))
                IN  IF \E k \in 1..Len(th.selected_indices) :
                           th.selected_indices[k] >= Len(documents)
                    THEN SetThread(t, Finish([th EXCEPT !.seen_len = seen], "IndexError", None))
                    ELSE SetThread(t, Finish([th EXCEPT !.seen_len = seen], "none",
                             [k \in 1..Len(th.selected_indices) |->
                                 documents[th.selected_indices[k] + 1]]))
        /\ UNCHANGED <<storeVars, ncalls>> /\ ConcUnchanged

IngestSteps(t) ==
    \/ IngCheck(t) \/ IngInitDocs(t) \/ IngInitEmbs(t) \/ IngInitMeta(t)
    \/ IngAppendDoc(t) \/ IngAppendEmb(t) \/ IngAppendMeta(t)

ReaderSteps(t) ==
    \/ StCheck(t) \/ StLen(t) \/ StMeta(t)
    \/ RtCheckIn(t) \/ RtCheckEmpty(t) \/ RtEmbeddings(t) \/ RtDocuments(t)

IngestReadNext ==
    \E t \in ThreadIds :
        \/ \E u \in Uploads, s \in SessionIds : StartIngest(t, u, s)
        \/ \E s \in SessionIds : StartStats(t, s)
        \/ \E q \in ConcQueries, s \in SessionIds \cup {None}, k \in ConcTopKs :
              StartRetrieve(t, q, s, k)
        \/ IngestSteps(t)
        \/ ReaderSteps(t)

\* ingests and readers running concurrently
SpecIngestRead == ConcInit /\ [][IngestReadNext]_vars

-----------------------------------------------------------------------------
(* Concurrent clears.  clear_session_documents and clear_document_store,    *)
(* statement by statement; th.pre records the store the call began on.      *)

StartClearSession(t, session_id) ==
    /\ CanStart(t)
    /\ SetThread(t, [pc |-> "cs_check_docs", op |-> "clear_session_documents",
                     session_id |-> session_id, pre |-> Store,
                     raised |-> "none", value |-> None])
    /\ ncalls' = ncalls + 1
    /\ UNCHANGED storeVars /\ ConcUnchanged

\* line 175
CsCheckDocs(t) ==
    LET th == threads[t]
    IN  /\ th.pc = "cs_check_docs"
        /\ SetThread(t, [th EXCEPT !.pc = IF th.session_id \in DOMAIN session_documents
                                          THEN "cs_del_docs" ELSE "cs_check_embs"])
        /\ UNCHANGED <<storeVars, ncalls>> /\ ConcUnchanged

\* line 176
CsDelDocs(t) ==
    LET th == threads[t]
    IN  /\ th.pc = "cs_del_docs"
        /\ IF th.session_id \in DOMAIN session_documents
           THEN /\ session_documents' = DictDel(session_documents, th.session_id)
                /\ SetThread(t, [th EXCEPT !.pc = "cs_check_embs"])
           ELSE /\ SetThread(t, Finish(th, "KeyError", None))
                /\ UNCHANGED session_documents
        /\ UNCHANGED <<session_embeddings, session_metadata, ncalls>> /\ ConcUnchanged

\* line 177
CsCheckEmbs(t) ==
    LET th == threads[t]
    IN  /\ th.pc = "cs_check_embs"
        /\ SetThread(t, [th EXCEPT !.pc = IF th.session_id \in DOMAIN session_embeddings
                                          THEN "cs_del_embs" ELSE "cs_check_meta"])
        /\ UNCHANGED <<storeVars, ncalls>> /\ ConcUnchanged

\* line 178
CsDelEmbs(t) ==
    LET th == threads[t]
    IN  /\ th.pc = "cs_del_embs"
        /\ IF th.session_id \in DOMAIN session_embeddings
           THEN /\ session_embeddings' = DictDel(session_embeddings, th.session_id)
                /\ SetThread(t, [th EXCEPT !.pc = "cs_check_meta"])
           ELSE /\ SetThread(t, Finish(th, "KeyError", None))
                /\ UNCHANGED session_embeddings
        /\ UNCHANGED <<session_documents, session_metadata, ncalls>> /\ ConcUnchanged

\* line 179
CsCheckMeta(t) ==
    LET th == threads[t]
    IN  /\ th.pc = "cs_check_meta"
        /\ SetThread(t, [th EXCEPT !.pc = IF th.session_id \in DOMAIN session_metadata
                                          THEN "cs_del_meta" ELSE "done"])
        /\ UNCHANGED <<storeVars, ncalls>> /\ ConcUnchanged

\* line 180
CsDelMeta(t) ==
    LET th == threads[t]
    IN  /\ th.pc = "cs_del_meta"
        /\ IF th.session_id \in DOMAIN session_metadata
           THEN /\ session_metadata' = DictDel(session_metadata, th.session_id)
                /\ SetThread(t, [th EXCEPT !.pc = "done"])
           ELSE /\ SetThread(t, Finish(th, "KeyError", None))
                /\ UNCHANGED session_metadata
        /\ UNCHANGED <<session_documents, session_embeddings, ncalls>> /\ ConcUnchanged

StartClearAll(t) ==
    /\ CanStart(t)
    /\ SetThread(t, [pc |-> "ca_docs", op |-> "clear_document_store", pre |-> Store,
                     raised |-> "none", value |-> None])
    /\ ncalls' = ncalls + 1
    /\ UNCHANGED storeVars /\ ConcUnchanged

\* line 188
CaDocs(t) ==
    LET th == threads[t]
    IN  /\ th.pc = "ca_docs"
        /\ session_documents' = EmptyDict
        /\ SetThread(t, [th EXCEPT !.pc = "ca_embs"])
        /\ UNCHANGED <<session_embeddings, session_metadata, ncalls>> /\ ConcUnchanged

\* line 189
CaEmbs(t) ==
    LET th == threads[t]
    IN  /\ th.pc = "ca_embs"
        /\ session_embeddings' = EmptyDict
        /\ SetThread(t, [th EXCEPT !.pc = "ca_meta"])
        /\ UNCHANGED <<session_documents, session_metadata, ncalls>> /\ ConcUnchanged

\* line 190
CaMeta(t) ==
    LET th == threads[t]
    IN  /\ th.pc = "ca_meta"
        /\ session_metadata' = EmptyDict
        /\ SetThread(t, [th EXCEPT !.pc = "done"])
        /\ UNCHANGED <<session_documents, session_embeddings, ncalls>> /\ ConcUnchanged

\* an ingest into a session that none of the three maps holds
StartFirstIngest(t, u, session_id) ==
    /\ session_id \notin DOMAIN session_documents
    /\ session_id \notin DOMAIN session_embeddings
    /\ session_id \notin DOMAIN session_metadata
    /\ StartIngest(t, u, session_id)

ClearSteps(t) ==
    \/ CsCheckDocs(t) \/ CsDelDocs(t) \/ CsCheckEmbs(t) \/ CsDelEmbs(t)
    \/ CsCheckMeta(t) \/ CsDelMeta(t)
    \/ CaDocs(t) \/ CaEmbs(t) \/ CaMeta(t)

ClearReadNext ==
    \E t \in ThreadIds :
        \/ \E s \in SessionIds : StartClearSession(t, s)
        \/ StartClearAll(t)
        \/ \E u \in Uploads, s \in SessionIds : StartFirstIngest(t, u, s)
        \/ \E s \in SessionIds : StartStats(t, s)
        \/ \E q \in ConcQueries, s \in SessionIds \cup {None}, k \in ConcTopKs :
              StartRetrieve(t, q, s, k)
        \/ ClearSteps(t)
        \/ IngestSteps(t)
        \/ ReaderSteps(t)

\* clears, first ingests and readers running concurrently
SpecClearRead == ConcInit /\ [][ClearReadNext]_vars

-----------------------------------------------------------------------------
(* Chunker runs: one call of split_text_intelligent on the drawn inputs *)

ChunkCall ==
    /\ c_result = NotRun
    /\ c_result' = [state |-> "returned", raised |-> "none",
                    run |-> split_run(c_text, c_chunk_size, c_overlap)]
    /\ UNCHANGED <<storeVars, ret, ncalls, histVars, threads, c_text, c_chunk_size, c_overlap, db>>

InitChunk == StoreInit /\ threads = NoThreads /\ ChunkInit

NextChunk == ChunkCall

SpecChunk == InitChunk /\ [][NextChunk]_vars

-----------------------------------------------------------------------------
(* Retrieval runs: a session rehydrated from persisted records, then queried *)

MaxChunks == 4

\* the vectors of the persisted chunks
StoredVectors == {<<5, 0>>, <<4, 3>>, <<3, 4>>, <<0, 5>>, <<-3, 4>>}

\* a vector persisted under an embedding model of another dimensionality
OtherModelVector == <<3, 4, 0>>

\* the text of the chunk persisted at each position
PositionTexts == <<"c1", "c2", "c3", "c4", "c5", "c6">>

PersistedRecord(i, v) ==
    [chunk_text |-> PositionTexts[i], embedding_vector |-> serialize_embedding(v),
     document |-> [id |-> UUID(1), original_filename |-> "notes.txt"], chunk_index |-> i - 1]

PersistedRecords(vs) == [i \in 1..Len(vs) |-> PersistedRecord(i, vs[i])]

RECURSIVE VectorLists(_)
VectorLists(n) ==
    IF n = 0 THEN {<<>>}
    ELSE {Append(vs, v) : vs \in VectorLists(n - 1), v \in StoredVectors}

RetrRecordLists ==
    {PersistedRecords(vs) : vs \in UNION {VectorLists(n) : n \in 1..MaxChunks}}
        \cup {PersistedRecords(<<<<3, 4>>, OtherModelVector>>),
              PersistedRecords(<<OtherModelVector>>),
              <<PersistedRecord(1, <<3, 4>>),
                [PersistedRecord(2, <<4, 3>>) EXCEPT !.embedding_vector = CorruptBytes]>>}

\* queries the embedder maps to <<5, 0>>, <<4, 3>>, <<3, 4>> and <<0, 5>>
RetrQueries == {"abcdefg", "a", "ab", "abc"}

RetrTopKs == {-1, 0, 1, 2, 3}

\* the session is rehydrated once, after a restart
LoadPersisted(recs) == ncalls = 0 /\ Rehydrate("s1", recs)

\* one query of the rehydrated session
QueryOnce(q, k) == ret.op = "load_session_from_database" /\ Retrieve(q, "s1", k, TRUE)

RetrieveNext ==
    \/ \E recs \in RetrRecordLists : LoadPersisted(recs)
    \/ \E q \in RetrQueries, k \in RetrTopKs : QueryOnce(q, k)

SpecRetrieve == Init /\ [][RetrieveNext]_vars

-----------------------------------------------------------------------------
(* The views of ai_app/views.py that reach the store.  Every request comes *)
(* from the logged-in user who owns the chat sessions, with the method the  *)
(* view expects; an uploaded file is a .txt file within the size limit.     *)

\* uuid.UUID(text), for the text of a UUID: what the <uuid:session_id> path
\* converter and the lookup ChatSession.objects.get(id=text) make of it
IsUuidText(text) == \E n \in 1..Len(UuidText) : UuidText[n] = text
uuid_UUID(text) == UUID(CHOOSE n \in 1..Len(UuidText) : UuidText[n] = text)

\* a uuid.UUID as a key of a dict: it compares equal to no str, so it is
\* spelled as a string that no str key is
UuidDictKey(u) == "UUID('" \o py_str_uuid(u) \o "')"

\* the primary keys uuid.uuid4 gives the ChatSession rows
ChatSessionIds == {UUID(7), UUID(8)}

\* the ChatSession row with this primary key exists
SessionExists(dbv, u) == u \in DOMAIN dbv.chat_sessions /\ dbv.chat_sessions[u]

\* ChatSession.objects.create: a row under a primary key never used before
CreateSessionRow(dbv, u) ==
    [dbv EXCEPT !.chat_sessions = [x \in (DOMAIN dbv.chat_sessions) \cup {u} |->
                                      IF x = u THEN TRUE ELSE dbv.chat_sessions[x]]]

\* session.delete()
DeleteSessionRow(dbv, u) == [dbv EXCEPT !.chat_sessions[u] = FALSE]

\* ChatSession.objects.get(id=session_id, user=request.user) for a str
\* session_id: "ValidationError" when it is not the text of a UUID,
\* "DoesNotExist" when no row has it
LookupSession(dbv, session_id) ==
    IF ~IsUuidText(session_id) THEN "ValidationError"
    ELSE IF ~SessionExists(dbv, uuid_UUID(session_id)) THEN "DoesNotExist"
    ELSE "found"

PleaseUpload == "Please upload a document first before asking questions."
Completion == "<completion>"
CompletionError == "Error generating response: <exception>"

\* lines 363-409 of ask_ai_with_docs, r being the outcome of the retrieve_chunks
\* call of line 361; llm_ok tells whether the completion call answers or
\* raises.  excerpts records the numbered excerpts the prompt is built from.
ask_ai_answer(r, llm_ok) ==
    IF r.raised # "none"
    THEN [raised |-> r.raised, answer |-> None, prompt_built |-> FALSE,
          excerpts |-> <<>>, context_chunks |-> <<>>]
    ELSE IF r.value # <<>> /\ r.value[1] = Sentinel
    THEN [raised |-> "none", answer |-> PleaseUpload, prompt_built |-> FALSE,
          excerpts |-> <<>>, context_chunks |-> r.value]
    ELSE [raised |-> "none",
          answer |-> IF llm_ok THEN Completion ELSE CompletionError,
          prompt_built |-> TRUE,
          excerpts |-> [i \in 1..Len(r.value) |-> [excerpt |-> i, chunk |-> r.value[i]]],
          context_chunks |-> r.value]

\* ask_ai_with_docs(question, session_id)
ask_ai_with_docs(st, question, session_id, embedder_ok, llm_ok) ==
    ask_ai_answer(retrieve_chunks(st, question, session_id, 5, embedder_ok), llm_ok)

\* the files uploaded: the name of one of Texts and the file's name
ViewUploads ==
    {[text |-> "blank", doc_name |-> "blank.txt"],
     [text |-> "short", doc_name |-> "notes.txt"],
     [text |-> "note", doc_name |-> "note.txt"],
     [text |-> "long", doc_name |-> "long.txt"],
     [text |-> "sentinel", doc_name |-> "faq.txt"]}

\* the session_id a request carries in its body
PostedSessionIds == {"", "u1", "u2", "nope"}

\* the questions a request carries: one that strips to nothing, one the
\* embedder maps to <<3, 4>> (nearest to the chunk of the text "note") and one
\* it maps to <<-3, 4>> (nearest to the chunk of the text "sentinel")
Questions == {<<" ">>, <<"h", "i", " ">>, <<"w", "h", "y", "?">>}

ViewFailPoints == {NoFailure, 0}

\* lines 550-551 on each of the texts: the extracted text is empty or strips to
\* fewer than 10 characters
NoTextExtracted ==
    [t \in DOMAIN Texts |-> Texts[t] = <<>> \/ Len(str_strip(Texts[t])) < 10]

MaxViewCalls == 4

ViewCall == ncalls < MaxViewCalls /\ ncalls' = ncalls + 1

ViewUnchanged == UNCHANGED <<histVars, threads, chunkVars>>

\* create_chat_session
CreateChatSession(u) ==
    /\ ViewCall
    /\ u \notin DOMAIN db.chat_sessions
    /\ db' = CreateSessionRow(db, u)
    /\ ret' = [op |-> "create_chat_session", status |-> 200, session_id |-> py_str_uuid(u)]
    /\ UNCHANGED storeVars /\ ViewUnchanged

\* upload_document; the embedder raises on chunk number fail_at
UploadDocument(session_id, file, fail_at) ==
    /\ ViewCall
    /\ LET found == LookupSession(db, session_id)
           doc_id == py_str_uuid(UUID(db.documents + 1))
           st == process_document_text_with_storage(Store, file.text, doc_id, session_id,
                                                    file.doc_name, fail_at)
           Respond(status, processed) ==
               ret' = [op |-> "upload_document", status |-> status,
                       session_id |-> session_id, doc_name |-> file.doc_name,
                       processed |-> processed]
       IN  IF session_id = ""
           THEN Respond(400, FALSE) /\ UNCHANGED <<storeVars, db>>
           ELSE IF found = "ValidationError"
           THEN Respond(500, FALSE) /\ UNCHANGED <<storeVars, db>>
           ELSE IF found = "DoesNotExist"
           THEN Respond(404, FALSE) /\ UNCHANGED <<storeVars, db>>
           ELSE /\ db' = [db EXCEPT !.documents = db.documents + 1]
                /\ IF NoTextExtracted[file.text]
                   THEN Respond(400, FALSE) /\ UNCHANGED storeVars
                   ELSE /\ SetStore(st)
                        /\ IF st.raised # "none"
                           THEN Respond(500, FALSE)
                           ELSE Respond(200, TRUE)
    /\ ViewUnchanged

\* the response of ai_chat to a request it rejects
AiChatRejected(status, session_id, question) ==
    [op |-> "ai_chat", status |-> status, session_id |-> session_id, question |-> question,
     answer |-> None, asked |-> FALSE, prompt_built |-> FALSE, excerpts |-> <<>>,
     context_chunks |-> <<>>]

\* the response of ai_chat once ask_ai_with_docs has returned r or raised
AiChatAsked(session_id, question, r) ==
    [op |-> "ai_chat", status |-> IF r.raised # "none" THEN 500 ELSE 200,
     session_id |-> session_id, question |-> question, answer |-> r.answer,
     asked |-> TRUE, prompt_built |-> r.prompt_built, excerpts |-> r.excerpts,
     context_chunks |-> r.context_chunks]

\* ai_chat, with ask_ai_with_docs; new_id is the primary key a session created
\* by the call gets
AiChat(posted_question, session_id, new_id, embedder_ok, llm_ok) ==
    /\ ViewCall
    /\ LET stripped == str_strip(posted_question)
           question == StrOf(stripped, 1, Len(stripped))
           found == LookupSession(db, session_id)
           asked_id == IF session_id = "" THEN py_str_uuid(new_id) ELSE session_id
       IN  IF question = ""
           THEN ret' = AiChatRejected(400, session_id, question) /\ UNCHANGED db
           ELSE IF session_id # "" /\ found = "ValidationError"
           THEN ret' = AiChatRejected(500, session_id, question) /\ UNCHANGED db
           ELSE IF session_id # "" /\ found = "DoesNotExist"
           THEN ret' = AiChatRejected(404, session_id, question) /\ UNCHANGED db
           ELSE /\ IF session_id = ""
                   THEN new_id \notin DOMAIN db.chat_sessions
                        /\ db' = CreateSessionRow(db, new_id)
                   ELSE UNCHANGED db
                /\ ret' = AiChatAsked(asked_id, question,
                              ask_ai_with_docs(Store, question, asked_id, embedder_ok, llm_ok))
    /\ UNCHANGED storeVars /\ ViewUnchanged

\* delete_chat_session, reached through the path
\* api/chat/sessions/<uuid:session_id>/delete/; path_id is the text in the path
DeleteChatSession(path_id) ==
    /\ ViewCall
    /\ LET session_id == uuid_UUID(path_id)
           key == UuidDictKey(session_id)
       IN  IF ~SessionExists(db, session_id)
           THEN /\ ret' = [op |-> "delete_chat_session", status |-> 404,
                           session_id |-> path_id, clear_key |-> None]
                /\ UNCHANGED <<storeVars, db>>
           ELSE /\ SetStore(clear_session_documents(Store, key))
                /\ db' = DeleteSessionRow(db, session_id)
                /\ ret' = [op |-> "delete_chat_session", status |-> 200,
                           session_id |-> path_id, clear_key |-> key]
    /\ ViewUnchanged

ViewNext ==
    \/ \E u \in ChatSessionIds : CreateChatSession(u)
    \/ \E s \in PostedSessionIds, f \in ViewUploads, fail_at \in ViewFailPoints :
          UploadDocument(s, f, fail_at)
    \/ \E q \in Questions, s \in PostedSessionIds, u \in ChatSessionIds,
          embedder_ok \in BOOLEAN, llm_ok \in BOOLEAN : AiChat(q, s, u, embedder_ok, llm_ok)
    \/ \E u \in ChatSessionIds : DeleteChatSession(py_str_uuid(u))

SpecViews == Init /\ [][ViewNext]_vars

-----------------------------------------------------------------------------
(* Properties *)

IsPrefix(p, s) == Len(p) <= Len(s) /\ SubSeq(s, 1, Len(p)) = p
LastN(s, n) == SubSeq(s, Len(s) - n + 1, Len(s))

\* the words a chunk opened by a split is said to begin with: the last
\* 'overlap' words of the chunk just closed (all of it when it is shorter),
\* then the words of the sentence that triggered the split
SeedOf(prev, sentence_words, overlap) ==
    (IF Len(prev) < overlap THEN prev ELSE LastN(prev, overlap)) \o sentence_words

SeedsAsDocumented ==
    LET run == c_result.run
        sentences == re_split_sentences(c_text)
    IN  \A k \in 1..Len(run.seeded) :
            /\ k + 1 <= Len(run.closed)
            /\ run.chunks[k + 1] = str_join(" ", run.closed[k + 1])
            /\ IsPrefix(SeedOf(run.closed[k], str_split(sentences[run.seeded[k].sentence]),
                               c_overlap),
                        run.closed[k + 1])

\* C10: for every chunk_size and every overlap with 0 <= overlap < chunk_size,
\* every chunk after the first begins with exactly the last 'overlap' words of
\* the previous chunk (the whole previous chunk when it has fewer), followed by
\* the words of the sentence that triggered the split.
C10_OverlapSeed ==
    (c_result # NotRun /\ 0 <= c_overlap /\ c_overlap < c_chunk_size) => SeedsAsDocumented

RECURSIVE Flatten(_)
Flatten(seqs) == IF seqs = <<>> THEN <<>> ELSE Head(seqs) \o Flatten(Tail(seqs))

Min2(a, b) == IF a <= b THEN a ELSE b

\* the number of words at the head of chunk k that the documentation counts as
\* its overlap prefix: none for the first chunk, the last 'overlap' words of
\* the previous chunk (all of them when it has fewer) for a later one
OverlapPrefixLen(closed, k, overlap) ==
    IF k = 1 THEN 0 ELSE Min2(overlap, Len(closed[k - 1]))

WithoutOverlapPrefix(closed, k, overlap) ==
    SubSeq(closed[k], OverlapPrefixLen(closed, k, overlap) + 1, Len(closed[k]))

ChunksAreClosedLists(run) ==
    /\ Len(run.chunks) = Len(run.closed)
    /\ \A k \in 1..Len(run.chunks) : run.chunks[k] = str_join(" ", run.closed[k])

\* C11: for every input text, the first chunk whole followed by every later
\* chunk with its overlap prefix removed is exactly the word sequence of the
\* input text: no word lost, duplicated or reordered.
C11_Coverage ==
    c_result # NotRun =>
        LET run == c_result.run
        IN  /\ ChunksAreClosedLists(run)
            /\ Flatten([k \in 1..Len(run.closed) |->
                           WithoutOverlapPrefix(run.closed, k, c_overlap)])
                  = str_split(c_text)

\* C12: split_text_intelligent called with overlap >= chunk_size rejects the
\* configuration as invalid instead of producing chunks.
C12_RejectsOverlapNotBelowChunkSize ==
    (c_result # NotRun /\ c_overlap >= c_chunk_size)
        => (c_result.raised # "none" /\ c_result.run.chunks = <<>>)

SentenceSize(i) == Len(str_split(re_split_sentences(c_text)[i]))

\* chunk k holds, whole, a sentence of more than chunk_size words
HoldsOversizedSentence(run, k) ==
    \E j \in 1..Len(run.closed_sentences[k]) :
        SentenceSize(run.closed_sentences[k][j]) > c_chunk_size

\* C20: with overlap < chunk_size, every chunk has at most chunk_size words,
\* except a chunk containing a sentence that is itself longer than chunk_size
\* words.
C20_ChunkWithinBudget ==
    (c_result # NotRun /\ 0 <= c_overlap /\ c_overlap < c_chunk_size) =>
        \A k \in 1..Len(c_result.run.closed) :
            \/ Len(c_result.run.closed[k]) <= c_chunk_size
            \/ HoldsOversizedSentence(c_result.run, k)

\* the number of words chunk k was seeded with from the chunk closed before it
\* (none for the first chunk)
CarriedOver(run, k) ==
    IF k = 1 THEN 0
    ELSE Len(run.seeded[k - 1].words) - SentenceSize(run.seeded[k - 1].sentence)

\* C20, as the code has it: with overlap < chunk_size, every chunk has at most
\* chunk_size words on top of the words carried over from the previous chunk,
\* except a chunk containing a sentence that is itself longer than chunk_size
\* words.
C20_ChunkWithinBudgetPlusOverlap ==
    (c_result # NotRun /\ 0 <= c_overlap /\ c_overlap < c_chunk_size) =>
        \A k \in 1..Len(c_result.run.closed) :
            \/ Len(c_result.run.closed[k]) <= c_chunk_size + CarriedOver(c_result.run, k)
            \/ HoldsOversizedSentence(c_result.run, k)

\* a chunk of more than chunk_size words, none of its sentences oversized,
\* opened by a split with 1 <= overlap < chunk_size
C20_Witness ==
    /\ c_result # NotRun
    /\ 1 <= c_overlap /\ c_overlap < c_chunk_size
    /\ \E k \in 2..Len(c_result.run.closed) :
          /\ Len(c_result.run.closed[k]) > c_chunk_size
          /\ CarriedOver(c_result.run, k) = c_overlap
          /\ ~HoldsOversizedSentence(c_result.run, k)

-----------------------------------------------------------------------------
(* Properties of the calls made one at a time *)

SameKeys ==
    /\ DOMAIN session_documents = DOMAIN session_embeddings
    /\ DOMAIN session_documents = DOMAIN session_metadata

\* the list d holds for the session, the empty list when it holds none
ListOf(d, session_id) == IF session_id \in DOMAIN d THEN d[session_id] ELSE <<>>

LensEqual(documents, embeddings, metadata, session_id) ==
    /\ Len(ListOf(documents, session_id)) = Len(ListOf(embeddings, session_id))
    /\ Len(ListOf(documents, session_id)) = Len(ListOf(metadata, session_id))

EqualLengths(session_id) ==
    LensEqual(session_documents, session_embeddings, session_metadata, session_id)

\* C1: after any sequence of successfully completed ingest, rehydrate,
\* clear_session_documents and clear_document_store calls, the three maps have
\* the same session keys and every session's three lists have equal length.
C1_ParallelLists ==
    all_ok => (SameKeys /\ \A s \in DOMAIN session_documents : EqualLengths(s))

\* an ingest of the three-chunk text followed by a rehydration of two records
\* into the same session, both successful
C1_Witness ==
    /\ all_ok
    /\ ret.op = "load_session_from_database"
    /\ Len(ret.document_embeddings) = 2
    /\ Len(ListOf(session_documents, ret.session_id)) = 5

HasCorruptRecord(document_embeddings) ==
    \E i \in 1..Len(document_embeddings) : ~CanUnpickle(document_embeddings[i].embedding_vector)

\* C3: if the deserialization of a record's vector fails during rehydrate, the
\* call fails and the session's three sequences still have equal length.
C3_RehydrateFailureKeepsLengths ==
    (ret.op = "load_session_from_database" /\ HasCorruptRecord(ret.document_embeddings))
        => (ret.raised # "none" /\ EqualLengths(ret.session_id))

AbsentOrEmpty(session_id) ==
    \/ /\ session_id \notin DOMAIN session_documents
       /\ session_id \notin DOMAIN session_embeddings
       /\ session_id \notin DOMAIN session_metadata
    \/ /\ session_id \in DOMAIN session_documents
       /\ session_documents[session_id] = <<>>

\* C4: for every query and every top_k, retrieve_chunks on a session that is
\* absent or present with zero chunks returns exactly <<Sentinel>>, does not
\* raise and does not call the embedder.
C4_SentinelOnEmpty ==
    (ret.op = "retrieve_chunks" /\ AbsentOrEmpty(EffectiveSession(ret.session_id)))
        => (ret.value = <<Sentinel>> /\ ret.raised = "none" /\ ret.embed_calls = 0)

\* a retrieval, with a negative top_k, from a session that is present and empty
C4_Witness ==
    /\ ret.op = "retrieve_chunks"
    /\ ret.session_id = "s1"
    /\ ret.top_k = -1
    /\ "s1" \in DOMAIN session_documents
    /\ session_documents["s1"] = <<>>
    /\ ret.value = <<Sentinel>>

\* C5: after clear_session_documents(S), whatever preceded it, and until the
\* next ingest or rehydrate into S, retrieve_chunks(q, S) returns the sentinel
\* and get_session_stats(S) reports total_chunks = 0 and unique_documents = 0.
C5_ClearedSessionLooksEmpty ==
    \A s \in DOMAIN cleared :
        /\ \A q \in Queries, k \in TopKs, ok \in BOOLEAN :
              LET r == retrieve_chunks(Store, q, s, k, ok)
              IN  r.raised = "none" /\ r.value = <<Sentinel>>
        /\ LET r == get_session_stats(Store, s)
           IN  /\ r.raised = "none"
               /\ r.value.total_chunks = 0
               /\ r.value.unique_documents = 0
        /\ (ret.op \in {"retrieve_chunks", "get_session_stats"} /\ ret.session_id = s)
              => /\ ret.raised = "none"
                 /\ ret.op = "retrieve_chunks" => ret.value = <<Sentinel>>
                 /\ ret.op = "get_session_stats" =>
                       (ret.value.total_chunks = 0 /\ ret.value.unique_documents = 0)

\* a retrieval from a session that held chunks when it was cleared
C5_Witness ==
    /\ ret.op = "retrieve_chunks"
    /\ ret.session_id \in DOMAIN cleared
    /\ cleared[ret.session_id] > 0
    /\ ret.value = <<Sentinel>>

\* everything the three maps hold for one session
SessionView(session_id) ==
    [present |-> <<session_id \in DOMAIN session_documents,
                   session_id \in DOMAIN session_embeddings,
                   session_id \in DOMAIN session_metadata>>,
     documents |-> ListOf(session_documents, session_id),
     embeddings |-> ListOf(session_embeddings, session_id),
     metadata |-> ListOf(session_metadata, session_id)]

Range(seq) == {seq[i] : i \in 1..Len(seq)}

\* the step is a call of an operation on one session that writes the store
WritesOneSession ==
    /\ ncalls' = ncalls + 1
    /\ ret'.op \in {"process_document_text_with_storage", "load_session_from_database",
                    "clear_session_documents"}

\* the call just made is a retrieval that returned texts of its own session
\* (or the sentinel, the session holding no vector)
RetrievedFromOwnSession ==
    (ret.op = "retrieve_chunks" /\ ret.raised = "none")
        => \/ ret.value = <<Sentinel>>
              /\ ListOf(session_embeddings, EffectiveSession(ret.session_id)) = <<>>
           \/ Range(ret.value)
                 \subseteq Range(ListOf(session_documents, EffectiveSession(ret.session_id)))

\* C6: an ingest, rehydrate or clear_session_documents on session A leaves
\* the texts, vectors and metadata of every other session B unchanged, and
\* retrieve_chunks(q, A) returns only texts stored in session A.
C6_SessionIsolation ==
    [][ /\ WritesOneSession =>
              \A b \in SessionIds \ {ret'.session_id} : SessionView(b)' = SessionView(b)
        /\ RetrievedFromOwnSession' ]_vars

\* an ingest into s1 and a retrieval of s1 texts while the default session
\* holds other texts
C6_Witness ==
    /\ ret.op = "retrieve_chunks"
    /\ ret.session_id = "s1"
    /\ ret.raised = "none"
    /\ ret.value # <<Sentinel>>
    /\ Len(ret.value) >= 2
    /\ Len(ListOf(session_documents, "default")) >= 1
    /\ Range(session_documents["default"]) \cap Range(session_documents["s1"]) = {}

\* the metadata the k-th chunk (1-based) of an ingested document is said to carry
DocumentedMetadata(doc_id, doc_name, chunks, k) ==
    [doc_id |-> doc_id, doc_name |-> doc_name, chunk_id |-> k - 1,
     char_count |-> Len(chunks[k])]

\* the step appended the first m chunks of the call's document, and nothing
\* else, to the end of the three lists of the call's session
AppendedFirst(m) ==
    LET s == ret'.session_id
        chunks == TextChunks[ret'.text]
    IN  /\ m <= Len(chunks)
        /\ ListOf(session_documents', s) = ListOf(session_documents, s) \o SubSeq(chunks, 1, m)
        /\ Len(ListOf(session_embeddings', s)) = Len(ListOf(session_embeddings, s)) + m
        /\ IsPrefix(ListOf(session_embeddings, s), ListOf(session_embeddings', s))
        /\ ListOf(session_metadata', s) =
              ListOf(session_metadata, s)
                 \o [k \in 1..m |-> DocumentedMetadata(ret'.doc_id, ret'.doc_name, chunks, k)]

IngestStep == ncalls' = ncalls + 1 /\ ret'.op = "process_document_text_with_storage"

\* C7: if the embedder fails on chunk i of a document during ingest, the error
\* propagates, chunks 0..i-1 of the document remain appended, no chunk with
\* index >= i is appended, and the session's three sequences have equal length.
C7_PartialIngest ==
    [][ (IngestStep /\ ret'.failed_chunk # NoFailure)
            => /\ ret'.raised = "EmbeddingError"
               /\ AppendedFirst(ret'.failed_chunk)
               /\ LensEqual(session_documents', session_embeddings', session_metadata',
                            ret'.session_id) ]_vars

\* C8: a successful ingest of a document of n chunks appends exactly n entries
\* to the end of the session, in chunk order, leaving the entries already there
\* unchanged; the k-th appended entry carries the document id and name, the
\* chunk index k (0-based) and the length of the chunk's text.
C8_IngestAppends ==
    [][ (IngestStep /\ ret'.raised = "none")
            => AppendedFirst(Len(TextChunks[ret'.text])) ]_vars

\* the three-chunk text ingested after the one-chunk text into the same session
C8_Witness ==
    /\ ret.op = "process_document_text_with_storage"
    /\ ret.raised = "none"
    /\ ret.text = "long"
    /\ Len(TextChunks["long"]) = 3
    /\ Len(session_documents[ret.session_id]) = 4
    /\ session_metadata[ret.session_id][1].doc_id = "d1"
    /\ session_metadata[ret.session_id][4] =
          [doc_id |-> "d2", doc_name |-> "", chunk_id |-> 2, char_count |-> 701]

\* C9: a session entry exists only if a chunk has been ingested into it, or it
\* has been rehydrated, since it was last cleared; an ingest whose text yields
\* no chunk creates no entry, and the aggregate stats do not count the session.
C9_LazySessions ==
    /\ DOMAIN session_documents \subseteq populated
    /\ get_session_stats(Store, None).value.sessions \subseteq populated

\* the document ids among the metadata of a session
DocIdsOf(session_id) ==
    {ListOf(session_metadata, session_id)[i].doc_id :
        i \in 1..Len(ListOf(session_metadata, session_id))}

\* C17: get_session_stats(S) returns the number of chunks in session S and the
\* number of distinct document ids among them (0 and 0 when S is absent);
\* with no session id it returns the aggregate chunk count and the aggregate
\* distinct-document count across all sessions.
C17_StatsCounts ==
    ret.op = "get_session_stats" =>
        /\ ret.raised = "none"
        /\ IF ret.session_id # None
           THEN /\ ret.value.total_chunks = Len(ListOf(session_documents, ret.session_id))
                /\ ret.value.unique_documents = Cardinality(DocIdsOf(ret.session_id))
           ELSE /\ ret.value.total_chunks =
                      SumLens(session_documents, DOMAIN session_documents)
                /\ "unique_documents" \in DOMAIN ret.value
                /\ ret.value.unique_documents =
                      Cardinality(UNION {DocIdsOf(s) : s \in DOMAIN session_documents})

-----------------------------------------------------------------------------
(* Properties of the concurrent calls *)

IsReader(th) == th.op \in {"get_session_stats", "retrieve_chunks"}

\* C2: when an ingest into session S runs concurrently with a reader of S, the
\* reader never observes the text, vector and metadata sequences of S with
\* different lengths, nor S present in one of the three maps and absent from
\* another.
C2_ReaderSeesWholeChunks ==
    \A t \in ThreadIds :
        (IsReader(threads[t]) /\ threads[t].pc = "done")
            => /\ threads[t].raised # "KeyError"
               /\ \A a, b \in DOMAIN threads[t].seen_len :
                     threads[t].seen_len[a] = threads[t].seen_len[b]

IsIngest(th) == th.op = "process_document_text_with_storage"

\* the chunks of the ingest th occupy the positions p + 1 .. p + n of its
\* session, in ascending chunk index
RunAt(th, p) ==
    LET s == th.session_id
        n == Len(th.chunks)
        documents == ListOf(session_documents, s)
        metadata == ListOf(session_metadata, s)
    IN  /\ p + n <= Len(documents)
        /\ p + n <= Len(metadata)
        /\ \A k \in 1..n :
              /\ documents[p + k] = th.chunks[k]
              /\ metadata[p + k] = chunk_metadata(th.doc_id, th.doc_name, k - 1, th.chunks[k])

HasContiguousRun(th) ==
    \E p \in 0..Len(ListOf(session_documents, th.session_id)) : RunAt(th, p)

\* C21: when two documents are ingested concurrently into the same session,
\* each document's chunks still occupy a contiguous run of positions in the
\* session, in ascending chunk index, with the other document's chunks entirely
\* before or entirely after them.
C21_ConcurrentIngestsContiguous ==
    \A t, u \in ThreadIds :
        (/\ t # u
         /\ IsIngest(threads[t]) /\ threads[t].pc = "done"
         /\ IsIngest(threads[u]) /\ threads[u].pc = "done"
         /\ threads[t].session_id = threads[u].session_id
         /\ threads[t].doc_id # threads[u].doc_id)
            => HasContiguousRun(threads[t])

IsClear(th) == th.op \in {"clear_session_documents", "clear_document_store"}

\* the call th clears session s, or is an ingest into it
WritesSession(th, s) ==
    \/ th.op = "clear_document_store"
    \/ th.op \in {"clear_session_documents", "process_document_text_with_storage"}
       /\ th.session_id = s

\* the store before the writer th: the one a clear began on; for a first
\* ingest, one that does not hold the session
PreStore(th) == IF IsClear(th) THEN th.pre ELSE EmptyStore

\* the store after the writer th ran alone on PreStore(th)
PostStore(th) ==
    IF th.op = "clear_session_documents" THEN clear_session_documents(th.pre, th.session_id)
    ELSE IF th.op = "clear_document_store" THEN clear_document_store(th.pre)
    ELSE process_document_text_with_storage(EmptyStore, th.text, th.doc_id, th.session_id,
                                            th.doc_name, NoFailure)

\* what the reader rd answers when it runs alone on the store st
AnswerOn(st, rd) ==
    IF rd.op = "retrieve_chunks"
    THEN retrieve_chunks(st, rd.query, rd.session_id, rd.top_k, TRUE).value
    ELSE get_session_stats(st, rd.session_id).value

\* C22: a retrieve_chunks(q, S) or get_session_stats(S) call running
\* concurrently with clear_session_documents(S), clear_document_store or the
\* first ingest into S, the two being the only calls made, always completes
\* with either the pre-operation or the post-operation answer and never fails
\* with a missing-key or index error.
C22_ReaderSeesBeforeOrAfter ==
    \A t, u \in ThreadIds :
        (/\ t # u
         /\ ncalls = 2
         /\ IsReader(threads[t]) /\ threads[t].pc = "done"
         /\ IsClear(threads[u]) \/ IsIngest(threads[u])
         /\ WritesSession(threads[u], threads[t].session_id))
            => /\ threads[t].raised = "none"
               /\ threads[t].value \in {AnswerOn(PreStore(threads[u]), threads[t]),
                                        AnswerOn(PostStore(threads[u]), threads[t])}

\* the same, of the failures alone
ReaderNeverRaises ==
    \A t \in ThreadIds : (IsReader(threads[t]) /\ threads[t].pc = "done")
                            => threads[t].raised = "none"

\* the same, of the answers alone
ReaderAnswerBeforeOrAfter ==
    \A t, u \in ThreadIds :
        (/\ t # u
         /\ ncalls = 2
         /\ IsReader(threads[t]) /\ threads[t].pc = "done" /\ threads[t].raised = "none"
         /\ IsClear(threads[u]) \/ IsIngest(threads[u])
         /\ WritesSession(threads[u], threads[t].session_id))
            => threads[t].value \in {AnswerOn(PreStore(threads[u]), threads[t]),
                                     AnswerOn(PostStore(threads[u]), threads[t])}

-----------------------------------------------------------------------------
(* Properties of retrieval *)

\* the dimensionality D of the vectors the embedder produces
EmbedderDim == Len(Vectors[1])

\* the session retrieve_chunks was called on
RetSid == EffectiveSession(ret.session_id)

\* a session with N >= 1 chunks: N texts, N vectors of dimensionality D and N
\* metadata entries
SessionWithChunks(sid) ==
    /\ sid \in DOMAIN session_documents
    /\ sid \in DOMAIN session_embeddings
    /\ sid \in DOMAIN session_metadata
    /\ EqualLengths(sid)
    /\ Len(session_documents[sid]) >= 1
    /\ \A i \in 1..Len(session_embeddings[sid]) : Len(session_embeddings[sid][i]) = EmbedderDim

\* the similarity (scaled by 25) to the query of the chunk at position i (1-based)
Relevance(query, sid, i) == np_dot(model_encode(query), session_embeddings[sid][i])

\* a retrieval, the embedder answering, from a session with chunks
RetrievedWithChunks ==
    /\ ret.op = "retrieve_chunks"
    /\ ret.raised # "EmbeddingError"
    /\ SessionWithChunks(RetSid)

\* a retrieval, the embedder answering, from a session that holds texts
RetrievedFromTexts ==
    /\ ret.op = "retrieve_chunks"
    /\ ret.raised # "EmbeddingError"
    /\ RetSid \in DOMAIN session_documents
    /\ Len(session_documents[RetSid]) >= 1

\* C13: for a session with N >= 1 chunks and top_k >= 1, retrieve_chunks
\* returns exactly min(top_k, N) texts, each the text of a distinct chunk
\* position of the session, the first that of a chunk with the maximum
\* similarity to the query.
C13_ReturnsMinTopKN ==
    (RetrievedFromTexts /\ ret.top_k >= 1) =>
        LET documents == session_documents[RetSid]
            n == Len(documents)
            m == Min2(ret.top_k, n)
        IN  /\ ret.raised = "none"
            /\ Len(ret.value) = m
            /\ Len(ListOf(session_embeddings, RetSid)) = n
            /\ \E pos \in [1..m -> 1..n] :
                  /\ \A j, k \in 1..m : j # k => pos[j] # pos[k]
                  /\ \A k \in 1..m : ret.value[k] = documents[pos[k]]
                  /\ \A i \in 1..n :
                        Relevance(ret.query, RetSid, i) <= Relevance(ret.query, RetSid, pos[1])

\* the same, of a session with N texts, N vectors of dimensionality D and N
\* metadata entries
ReturnsMinTopKNOfWholeSession ==
    (ret.op = "retrieve_chunks" /\ SessionWithChunks(RetSid)) => C13_ReturnsMinTopKN

\* the shortlist (0-based positions): the min(2 * top_k, N) highest-scoring
\* chunks in descending score order
IsShortlist(shortlist, query, sid, top_k) ==
    LET n == Len(session_embeddings[sid])
        rel(p) == Relevance(query, sid, p + 1)
    IN  /\ Len(shortlist) = Min2(2 * top_k, n)
        /\ Range(shortlist) \subseteq 0..(n - 1)
        /\ \A j, k \in 1..Len(shortlist) : j < k =>
              (shortlist[j] # shortlist[k] /\ rel(shortlist[j]) >= rel(shortlist[k]))
        /\ \A p \in (0..(n - 1)) \ Range(shortlist), k \in 1..Len(shortlist) :
              rel(p) <= rel(shortlist[k])

\* (1 - w) * relevance + w * (minimum over the chunks already selected of
\* 1 - similarity to it), w = 0.3, scaled by 250
DocumentedScore(query, sid, p, already) ==
    LET emb == session_embeddings[sid]
    IN  (10 - DiversityWeight) * Relevance(query, sid, p + 1)
            + DiversityWeight * MinOf({25 - np_dot(emb[p + 1], emb[a + 1]) : a \in already})

RankIn(shortlist, p) == MinOf({k \in 1..Len(shortlist) : shortlist[k] = p})

\* a retrieval that went through the re-rank and returned
Reranked ==
    /\ ret.op = "retrieve_chunks"
    /\ ret.raised = "none"
    /\ ListOf(session_embeddings, RetSid) # <<>>

\* C14: when the shortlist has more than top_k members, every selection after
\* the seed is the remaining shortlisted candidate that maximizes the combined
\* score, the earlier in the shortlist among equals; when it has at most top_k
\* members it is returned unchanged.
C14_DiversityRerank ==
    (Reranked /\ ret.top_k >= 1) =>
        LET shortlist == ret.shortlist
            selected == ret.selected
        IN  /\ IsShortlist(shortlist, ret.query, RetSid, ret.top_k)
            /\ IF Len(shortlist) <= ret.top_k
               THEN selected = shortlist
               ELSE /\ Len(selected) = ret.top_k
                    /\ selected[1] = shortlist[1]
                    /\ \A j \in 2..Len(selected) :
                          LET already == {selected[k] : k \in 1..(j - 1)}
                              remaining == Range(shortlist) \ already
                              score(p) == DocumentedScore(ret.query, RetSid, p, already)
                          IN  /\ selected[j] \in remaining
                              /\ \A p \in remaining :
                                    /\ score(p) <= score(selected[j])
                                    /\ score(p) = score(selected[j]) =>
                                          RankIn(shortlist, selected[j]) <= RankIn(shortlist, p)

\* a selection after the seed that is not the next of the shortlist, and
\* another that wins a tie of combined scores by its shortlist rank
C14_Witness ==
    /\ Reranked
    /\ ret.top_k = 2
    /\ Len(ret.shortlist) = 4
    /\ ret.selected[2] = ret.shortlist[3]
    /\ DocumentedScore(ret.query, RetSid, ret.shortlist[3], {ret.selected[1]})
          = DocumentedScore(ret.query, RetSid, ret.shortlist[4], {ret.selected[1]})

\* two vectors with cosine similarity above 0.99
NearDuplicates(u, v) == 100 * np_dot(u, v) > 99 * 25

\* two vectors at right angles or further apart
Dissimilar(u, v) == np_dot(u, v) <= 0

\* C15: in a session of three chunks where two are near-duplicates and the
\* third is dissimilar to both but relevant to the query (similarity above 0),
\* retrieve_chunks with top_k = 2 never returns both near-duplicates.
C15_NoTwoNearDuplicates ==
    (RetrievedWithChunks /\ ret.top_k = 2 /\ Len(session_documents[RetSid]) = 3) =>
        LET emb == session_embeddings[RetSid]
        IN  \A a, b, c \in 1..3 :
                (/\ a < b /\ c # a /\ c # b
                 /\ NearDuplicates(emb[a], emb[b])
                 /\ Dissimilar(emb[c], emb[a]) /\ Dissimilar(emb[c], emb[b])
                 /\ Relevance(ret.query, RetSid, c) > 0)
                    => ~({a - 1, b - 1} \subseteq Range(ret.selected))

\* C16: retrieve_chunks called with top_k <= 0 on a non-empty session is
\* rejected with an error; it never returns chunk texts for such a top_k.
C16_RejectsNonPositiveTopK ==
    (RetrievedWithChunks /\ ret.top_k <= 0) => (ret.raised # "none" /\ ret.value = <<>>)

\* a record whose vector has another dimensionality than the embedder's
HasOtherDimRecord(document_embeddings) ==
    \E i \in 1..Len(document_embeddings) :
        /\ CanUnpickle(document_embeddings[i].embedding_vector)
        /\ Len(deserialize_embedding(document_embeddings[i].embedding_vector)) # EmbedderDim

\* C18: in every reachable state all vectors stored in a session have the
\* dimensionality D of the embedder; a rehydrate that would add a vector of
\* another dimensionality is rejected when it is attempted.
C18_OneDimensionality ==
    /\ \A s \in DOMAIN session_embeddings :
          \A i \in 1..Len(session_embeddings[s]) : Len(session_embeddings[s][i]) = EmbedderDim
    /\ (ret.op = "load_session_from_database" /\ HasOtherDimRecord(ret.document_embeddings))
          => ret.raised # "none"

\* C19: when several chunks of a session have exactly equal similarity to the
\* query, the earlier-inserted precedes the later-inserted in the shortlist,
\* and in the result when the shortlist is returned as it is; the first text
\* returned is that of the earliest-inserted of the most similar chunks.
C19_TiesInInsertionOrder ==
    (RetrievedWithChunks /\ ret.top_k >= 1 /\ ret.raised = "none") =>
        LET n == Len(session_embeddings[RetSid])
            rel(p) == Relevance(ret.query, RetSid, p + 1)
            before(seq, a, b) ==
                (a \in Range(seq) /\ b \in Range(seq)) => RankIn(seq, a) < RankIn(seq, b)
        IN  /\ \A a, b \in 0..(n - 1) :
                  (a < b /\ rel(a) = rel(b))
                      => /\ before(ret.shortlist, a, b)
                         /\ Len(ret.shortlist) <= ret.top_k => before(ret.selected, a, b)
            /\ \A a \in 0..(n - 1) : rel(a) = rel(ret.selected[1]) => ret.selected[1] <= a

-----------------------------------------------------------------------------
(* Properties of the views *)

\* the step is a delete_chat_session that succeeded
DeletesSession ==
    /\ ncalls' = ncalls + 1
    /\ ret'.op = "delete_chat_session"
    /\ ret'.status = 200

\* the session holds nothing under the key, in none of the three maps
NothingUnder(documents, embeddings, metadata, key) ==
    /\ ListOf(documents, key) = <<>>
    /\ ListOf(embeddings, key) = <<>>
    /\ ListOf(metadata, key) = <<>>

\* C23: after delete_chat_session succeeds for a chat session into which
\* documents were uploaded through upload_document (the store holding their
\* chunks under the session_id string of the upload requests), the store
\* holds no chunks under that key: the key the delete view passes to
\* clear_session_documents identifies the same store entry as that string.
C23_DeleteClearsUploads ==
    [][ (DeletesSession /\ ListOf(session_documents, ret'.session_id) # <<>>)
            => /\ ret'.clear_key = ret'.session_id
               /\ NothingUnder(session_documents', session_embeddings', session_metadata',
                               ret'.session_id) ]_vars

\* the numbered excerpts of a prompt built from the chunks
ExcerptsOf(chunks) == [i \in 1..Len(chunks) |-> [excerpt |-> i, chunk |-> chunks[i]]]

\* C24: ask_ai_with_docs answers PleaseUpload only when the session is absent
\* or has zero chunks; for a session holding at least one chunk it always
\* builds the numbered-excerpt prompt from the retrieved chunks, whatever the
\* stored chunk texts are.
C24_PleaseUploadOnlyWithoutChunks ==
    (ret.op = "ai_chat" /\ ret.asked /\ ret.status = 200) =>
        LET documents == ListOf(session_documents, ret.session_id)
        IN  /\ ret.answer = PleaseUpload => documents = <<>>
            /\ documents # <<>> =>
                  /\ ret.prompt_built
                  /\ ret.context_chunks # <<>>
                  /\ Range(ret.context_chunks) \subseteq Range(documents)
                  /\ ret.excerpts = ExcerptsOf(ret.context_chunks)

====
